---- MODULE Spec2Model ----
(***************************************************************************)
(* State-machine model of kerastuner/callbacks/monitorcallback.py:         *)
(* MonitorCallback, the training-loop observer of the tuner.  The main     *)
(* (training) thread runs the Keras hooks on_train_begin, on_batch_end,    *)
(* on_epoch_end and on_train_end; every hook is one atomic action.  The    *)
(* thread pool runs the _checkpoint_model tasks that on_epoch_end submits. *)
(***************************************************************************)
EXTENDS Integers, Sequences, FiniteSets, TLC

VARIABLES
    now,                \* wall clock read by time(), in ticks
    last_refresh,       \* self.last_refresh, in ticks (-1 after construction)
    epoch_history,      \* self.epoch_history: metric -> list of floats
    training_complete,  \* self.training_complete
    tuner_state,        \* the shared tuner state object
    instance_state,     \* the shared instance state object
    execution_state,    \* the shared execution state object
    cloud_enabled,      \* self.cloudservice.is_enable
    thread_pool,        \* self.thread_pool: checkpoint tasks by position
    last,               \* name of the step taken last
    out,                \* I/O events of the step taken last, in program order
    hist                \* history (ghost) values the properties refer to

vars == <<now, last_refresh, epoch_history, training_complete, tuner_state,
          instance_state, execution_state, cloud_enabled, thread_pool,
          last, out, hist>>

-----------------------------------------------------------------------------
(* Bounds of the model *)

\* ticks of the clock per second (resolution of time())
TicksPerSecond == 2
\* the clock runs for at most this many ticks after construction
MaxElapsed == 4
\* on_epoch_end is called at most this many times
MaxEpochs == 2
\* a metric's epoch_history list holds at most this many values
MaxBatches == 2
\* on_train_end is called at most this many times
MaxTrainEnds == 2

(* Program constants *)

\* refresh_interval=2, the constructor's default (seconds)
refresh_interval == 2
\* remaining_budget < 1 ends the tuning
BudgetFloor == 1

-----------------------------------------------------------------------------
(* Strings are sequences of one-character strings, so that formatting and  *)
(* path joining are computed and not assumed.                              *)

Digits == <<"0", "1", "2", "3", "4", "5", "6", "7", "8", "9">>

\* str(n) for a non-negative int, as '%s' formats it
RECURSIVE str(_)
str(n) ==
    IF n < 10 THEN <<Digits[n + 1]>>
    ELSE str(n \div 10) \o <<Digits[(n % 10) + 1]>>

\* os.path.join(a, b) of posixpath
path_join(a, b) ==
    IF Len(b) > 0 /\ b[1] = "/" THEN b
    ELSE IF Len(a) = 0 \/ a[Len(a)] = "/" THEN a \o b
    ELSE a \o <<"/">> \o b

\* _get_filename_prefix(with_execution_info)
get_filename_prefix(ts, is, es, with_execution_info) ==
    LET base == ts.project \o <<"-">> \o ts.architecture \o <<"-">> \o str(is.idx)
        prefix == IF with_execution_info
                  THEN base \o <<"-">> \o str(es.idx)
                  ELSE base
    IN  path_join(ts.host.result_dir, prefix)

\* as results_fname, the prefix taken with its default argument
results_fname_with_execution(ts, is, es) ==
    get_filename_prefix(ts, is, es, TRUE)
    \o <<"-", "r", "e", "s", "u", "l", "t", "s", ".", "j", "s", "o", "n">>

\* fname of _write_result_file: prefix + '-results.json'
ResultsSuffix == <<"-", "r", "e", "s", "u", "l", "t", "s", ".", "j", "s", "o", "n">>

results_fname(ts, is, es) ==
    get_filename_prefix(ts, is, es, FALSE) \o ResultsSuffix

\* base_filename of _checkpoint_model
checkpoint_base_filename(ts, is, es) ==
    path_join(ts.host.local_dir, get_filename_prefix(ts, is, es, TRUE))

\* fname of _report_status_worker
status_fname(ts) ==
    path_join(ts.host.result_dir, <<"s", "t", "a", "t", "u", "s", ".", "j", "s", "o", "n">>)

-----------------------------------------------------------------------------
(* Numbers.  A logged value is <<type, n>>; float() converts the type and  *)
(* keeps the number.                                                       *)

float(value) == <<"float", value[2]>>

\* int(time()): whole seconds of a clock reading in ticks
int_time(t) == t \div TicksPerSecond

Metrics == {"loss", "acc"}

Direction(metric) == IF metric = "loss" THEN "min" ELSE "max"

\* no value recorded yet
NoValue == 0

\* value a is better than b for the metric
Better(metric, a, b) ==
    IF Direction(metric) = "min" THEN a < b ELSE a > b

\* MetricsCollection.update(metric, value): the improvement it reports
metrics_improved(coll, metric, value) ==
    /\ metric \in DOMAIN coll
    /\ \/ coll[metric] = NoValue
       \/ Better(metric, float(value)[2], coll[metric])

\* MetricsCollection.update(metric, value): the collection afterwards
metrics_update(coll, metric, value) ==
    IF metrics_improved(coll, metric, value)
    THEN [coll EXCEPT ![metric] = float(value)[2]]
    ELSE coll

NoFile == <<>>

\* one I/O call of a step: what was called, on which file, with which
\* payload, and the clock reading when the call returned
Event(ev, fname, p, t_done) ==
    [ev |-> ev, fname |-> fname, p |-> p, t_done |-> t_done]

EmptyHistory == [m \in Metrics |-> <<>>]

\* logs={}
EmptyLogs == [m \in {} |-> <<"float", 0>>]

-----------------------------------------------------------------------------
(* Helpers of the callback, as operators over the state they read *)

\* the status dict of _report_status_worker, built at clock reading t
StatusPayload(ts, is, es, tc, eh, t) ==
    [kind |-> "status", update_time |-> int_time(t), tuner |-> ts,
     instance |-> is, execution |-> es, training_complete |-> tc,
     epoch_history |-> eh]

\* the status dict of _write_result_file, built at clock reading t
ResultsPayload(ts, is, t) ==
    [kind |-> "results", update_time |-> int_time(t), tuner |-> ts,
     instance |-> is]

\* _report_status_worker started at t, its I/O taking d ticks: the events
report_status_worker(ts, is, es, tc, eh, enabled, t, d) ==
    LET status == StatusPayload(ts, is, es, tc, eh, t)
    IN  <<Event("write_file", status_fname(ts), status, t + d)>>
        \o (IF enabled THEN <<Event("send_status", NoFile, status, t + d)>>
            ELSE <<>>)

\* as write_result_file, without the test of cloudservice.is_enable
write_result_file_always_sends(ts, is, es, enabled, t, d) ==
    LET status == ResultsPayload(ts, is, t)
    IN  <<Event("write_file", results_fname(ts, is, es), status, t + d),
          Event("send_results", NoFile, status, t + d)>>

\* _write_result_file started at t, its I/O taking d ticks: the events
write_result_file(ts, is, es, enabled, t, d) ==
    LET status == ResultsPayload(ts, is, t)
    IN  <<Event("write_file", results_fname(ts, is, es), status, t + d)>>
        \o (IF enabled THEN <<Event("send_results", NoFile, status, t + d)>>
            ELSE <<>>)

\* as report_status_due, the comparison of delta reversed
report_status_due_reversed(force, t, lr) ==
    ~ ((t - lr) > refresh_interval * TicksPerSecond /\ ~force)

\* _report_status(force) called at clock reading t with self.last_refresh
\* = lr: whether the worker runs
report_status_due(force, t, lr) ==
    ~ ((t - lr) < refresh_interval * TicksPerSecond /\ ~force)

\* as report_status_last_refresh, a forced report leaving last_refresh alone
report_status_last_refresh_unforced(due, lr, t_return) ==
    IF due /\ t_return - lr >= refresh_interval * TicksPerSecond
    THEN t_return ELSE lr

\* _report_status(force): self.last_refresh afterwards, the worker having
\* returned at t_return
report_status_last_refresh(due, lr, t_return) ==
    IF due THEN t_return ELSE lr

\* as checkpoints_submitted, without the test of the objective
checkpoints_submitted_any(ts, es, logs) ==
    {m \in DOMAIN logs : metrics_improved(es.metrics, m, logs[m])}

\* on_epoch_end, lines 38-41: the metrics of logs for which a checkpoint
\* task is submitted
checkpoints_submitted(ts, es, logs) ==
    {m \in DOMAIN logs :
        ts.objective = m /\ metrics_improved(es.metrics, m, logs[m])}

\* on_epoch_end, lines 38-39: execution_state.metrics after the loop
RECURSIVE update_all(_, _, _)
update_all(coll, logs, todo) ==
    IF todo = {} THEN coll
    ELSE LET m == CHOOSE x \in todo : TRUE
         IN  update_all(metrics_update(coll, m, logs[m]), logs, todo \ {m})

\* as tuning_is_complete, the budget compared with 0
tuning_is_complete_below_zero(ts) == ts.remaining_budget < 0

\* on_train_end, line 61: whether _tuning_complete is called
tuning_is_complete(ts) == ts.remaining_budget < BudgetFloor

\* the metrics of a collection that hold a value (MetricsCollection.to_list)
to_list(coll) == {m \in DOMAIN coll : coll[m] # NoValue}

\* the logs that report every metric's best value of a collection
BestValues(coll) == [m \in to_list(coll) |-> <<"float", coll[m]>>]

\* InstanceState.to_config()
instance_to_config(is) == is

\* ExecutionState.to_config()
execution_to_config(es) == es

\* _end_training_statistics, lines 72-73: instance_state.agg_metrics
instance_agg_after(is, es) ==
    update_all(is.agg_metrics, BestValues(es.metrics), to_list(es.metrics))

\* _end_training_statistics, lines 76-80: tuner_state.agg_metrics, folded
\* from the instance aggregate agg
tuner_agg_after(ts, agg) ==
    update_all(ts.agg_metrics, BestValues(agg), to_list(agg))

\* _end_training_statistics, lines 76-80: update_best_model
update_best_model(ts, agg) ==
    \E m \in to_list(agg) :
        m = ts.objective /\ metrics_improved(ts.agg_metrics, m, BestValues(agg)[m])

\* as end_training_statistics, the tuner aggregate folded first, from the
\* instance aggregate as it was before the execution was folded into it
end_training_statistics_global_first(ts, is, es) ==
    LET better == update_best_model(ts, is.agg_metrics)
        ts1 == [ts EXCEPT !.agg_metrics = tuner_agg_after(ts, is.agg_metrics)]
        is1 == [is EXCEPT !.agg_metrics = instance_agg_after(is, es)]
        ts2 == IF better \/ ts1.best_instance_config = <<>>
               THEN [ts1 EXCEPT !.best_instance_config = <<instance_to_config(is1)>>]
               ELSE ts1
        is2 == [is1 EXCEPT !.execution_configs =
                               Append(@, execution_to_config(es))]
    IN  [ts |-> ts2, is |-> is2]

\* _end_training_statistics: the tuner and the instance state afterwards
end_training_statistics(ts, is, es) ==
    LET is1 == [is EXCEPT !.agg_metrics = instance_agg_after(is, es)]
        better == update_best_model(ts, is1.agg_metrics)
        ts1 == [ts EXCEPT !.agg_metrics = tuner_agg_after(ts, is1.agg_metrics)]
        ts2 == IF better \/ ts1.best_instance_config = <<>>
               THEN [ts1 EXCEPT !.best_instance_config = <<instance_to_config(is1)>>]
               ELSE ts1
        is2 == [is1 EXCEPT !.execution_configs =
                               Append(@, execution_to_config(es))]
    IN  [ts |-> ts2, is |-> is2]

-----------------------------------------------------------------------------
(* Initial state: the callback right after __init__ *)

StartTime == refresh_interval * TicksPerSecond

NoMetrics == [m \in Metrics |-> NoValue]

InitWith(names, budgets, enableds, pool_sizes) ==
    /\ now = StartTime
    /\ last_refresh = (-1) * TicksPerSecond
    /\ epoch_history = EmptyHistory
    /\ training_complete = FALSE
    /\ \E n \in names, b \in budgets :
          /\ tuner_state =
                [project |-> n.project, architecture |-> n.architecture,
                 objective |-> "loss", remaining_budget |-> b,
                 num_executions |-> MaxTrainEnds,
                 agg_metrics |-> NoMetrics, best_instance_config |-> <<>>,
                 host |-> [result_dir |-> n.result_dir, local_dir |-> n.local_dir]]
          /\ instance_state =
                [idx |-> n.instance_idx, execution_trained |-> 0,
                 agg_metrics |-> NoMetrics, execution_configs |-> <<>>]
          /\ execution_state =
                [idx |-> n.execution_idx, epochs |-> 0, metrics |-> NoMetrics]
          /\ hist = [batch_values |-> EmptyHistory, batch_write |-> -1,
                     prev_batch_write |-> -1, train_ended |-> FALSE,
                     logs |-> EmptyLogs, budget0 |-> b]
    /\ cloud_enabled \in enableds
    /\ \E n \in pool_sizes :
          thread_pool = [num_threads |-> n, pending |-> 0, saving |-> 0,
                         saved |-> 0]
    /\ last = "init"
    /\ out = <<>>

-----------------------------------------------------------------------------
(* The hooks run by the training thread *)

EndOfTime == StartTime + MaxElapsed

\* on_batch_end, lines 27-28: self.epoch_history after the loop
history_after_batch(eh, logs) ==
    [m \in Metrics |->
        IF m \in DOMAIN logs THEN Append(eh[m], float(logs[m])) ELSE eh[m]]

\* as history_after_epoch, the history left as it was
history_not_reset(eh) == eh

\* on_epoch_end, line 44: self.epoch_history after the reset
history_after_epoch(eh) == EmptyHistory

\* on_epoch_end, line 34
epochs_after_epoch(es) == es.epochs + 1

\* as budget_after_epoch, the budget left as it was
budget_not_spent(ts) == ts.remaining_budget

\* on_epoch_end, line 35
budget_after_epoch(ts) == ts.remaining_budget - 1

\* as training_complete_after_train_end, the flag left as it was
training_complete_not_set(tc) == tc

\* on_train_end, line 56: self.training_complete afterwards
training_complete_after_train_end(tc) == TRUE

\* the values the properties remember of a step
Remember(batch_values, logs, wrote_batch_status, t, ended) ==
    [hist EXCEPT !.batch_values = batch_values,
                 !.logs = logs,
                 !.prev_batch_write =
                     IF wrote_batch_status THEN hist.batch_write ELSE @,
                 !.batch_write = IF wrote_batch_status THEN t ELSE @,
                 !.train_ended = ended]

\* on_batch_end(batch, logs); the status I/O, when it runs, takes d ticks
on_batch_end(logs, d) ==
    LET eh == history_after_batch(epoch_history, logs)
        due == report_status_due(FALSE, now, last_refresh)
        t_return == IF due THEN now + d ELSE now
    IN  /\ \A m \in DOMAIN logs : Len(epoch_history[m]) < MaxBatches
        /\ t_return <= EndOfTime
        /\ epoch_history' = eh
        /\ out' = IF due
                  THEN report_status_worker(tuner_state, instance_state,
                           execution_state, training_complete, eh,
                           cloud_enabled, now, d)
                  ELSE <<>>
        /\ last_refresh' = report_status_last_refresh(due, last_refresh, t_return)
        /\ now' = t_return
        /\ last' = "on_batch_end"
        /\ hist' = Remember([m \in Metrics |->
                                IF m \in DOMAIN logs
                                THEN Append(hist.batch_values[m], logs[m][2])
                                ELSE hist.batch_values[m]],
                            logs, due, t_return, hist.train_ended)
        /\ UNCHANGED <<training_complete, tuner_state, instance_state,
                       execution_state, cloud_enabled, thread_pool>>

\* the apply_async calls of on_epoch_end, one per submitted checkpoint
RECURSIVE apply_async(_, _)
apply_async(n, t) ==
    IF n = 0 THEN <<>>
    ELSE <<Event("apply_async", NoFile, [kind |-> "checkpoint"], t)>>
         \o apply_async(n - 1, t)

\* on_epoch_end(epoch, logs); the status I/O takes d ticks
on_epoch_end(logs, d) ==
    LET es == [execution_state EXCEPT
                   !.epochs = epochs_after_epoch(execution_state),
                   !.metrics = update_all(@, logs, DOMAIN logs)]
        ts == [tuner_state EXCEPT
                   !.remaining_budget = budget_after_epoch(tuner_state)]
        n == Cardinality(checkpoints_submitted(tuner_state, execution_state, logs))
        eh == history_after_epoch(epoch_history)
        due == report_status_due(TRUE, now, last_refresh)
        t_return == IF due THEN now + d ELSE now
    IN  /\ execution_state.epochs < MaxEpochs
        /\ t_return <= EndOfTime
        /\ execution_state' = es
        /\ tuner_state' = ts
        /\ thread_pool' = [thread_pool EXCEPT !.pending = @ + n]
        /\ epoch_history' = eh
        /\ out' = apply_async(n, now)
                  \o (IF due
                      THEN report_status_worker(ts, instance_state, es,
                               training_complete, eh, cloud_enabled, now, d)
                      ELSE <<>>)
        /\ last_refresh' = report_status_last_refresh(due, last_refresh, t_return)
        /\ now' = t_return
        /\ last' = "on_epoch_end"
        /\ hist' = Remember(EmptyHistory, logs, FALSE, t_return, hist.train_ended)
        /\ UNCHANGED <<training_complete, instance_state, cloud_enabled>>

\* on_train_begin(logs)
on_train_begin ==
    /\ out' = <<Event("section", NoFile,
                      [kind |-> "section",
                       execution |-> instance_state.execution_trained + 1,
                       of |-> tuner_state.num_executions], now)>>
    /\ last' = "on_train_begin"
    /\ hist' = Remember(hist.batch_values, EmptyLogs, FALSE, now, hist.train_ended)
    /\ UNCHANGED <<now, last_refresh, epoch_history, training_complete,
                   tuner_state, instance_state, execution_state,
                   cloud_enabled, thread_pool>>

\* on_train_end(logs); the status I/O takes d ticks, the results I/O d2
on_train_end(d, d2) ==
    LET tc == training_complete_after_train_end(training_complete)
        stats == end_training_statistics(tuner_state, instance_state,
                                         execution_state)
        due == report_status_due(TRUE, now, last_refresh)
        t_return == IF due THEN now + d ELSE now
    IN  /\ Len(instance_state.execution_configs) < MaxTrainEnds
        /\ t_return + d2 <= EndOfTime
        /\ training_complete' = tc
        /\ tuner_state' = stats.ts
        /\ instance_state' = stats.is
        /\ out' = <<Event("end_training_statistics", NoFile,
                          [kind |-> "statistics"], now)>>
                  \o (IF due
                      THEN report_status_worker(stats.ts, stats.is,
                               execution_state, tc, epoch_history,
                               cloud_enabled, now, d)
                      ELSE <<>>)
                  \o write_result_file(stats.ts, stats.is, execution_state,
                                       cloud_enabled, t_return, d2)
                  \o (IF tuning_is_complete(stats.ts)
                      THEN <<Event("tuning_complete", NoFile,
                                   [kind |-> "info"], t_return + d2)>>
                      ELSE <<>>)
        /\ last_refresh' = report_status_last_refresh(due, last_refresh, t_return)
        /\ now' = t_return + d2
        /\ last' = "on_train_end"
        /\ hist' = Remember(hist.batch_values, EmptyLogs, FALSE, now, TRUE)
        /\ UNCHANGED <<epoch_history, execution_state, cloud_enabled,
                       thread_pool>>

-----------------------------------------------------------------------------
(* The thread pool: a submitted _checkpoint_model task is pending, then    *)
(* runs on one of the num_threads workers: save_model, then the results    *)
(* file.                                                                   *)

\* as worker_is_free, a pool that starts every task at once
worker_is_free_always(pool) == TRUE

\* ThreadPool(num_threads): a worker is free to take a task
worker_is_free(pool) == pool.saving + pool.saved < pool.num_threads

\* a worker of the pool takes a pending task
task_start ==
    /\ thread_pool.pending > 0
    /\ worker_is_free(thread_pool)
    /\ thread_pool' = [thread_pool EXCEPT !.pending = @ - 1, !.saving = @ + 1]
    /\ last' = "task_start"
    /\ out' = <<>>
    /\ hist' = Remember(hist.batch_values, EmptyLogs, FALSE, now, hist.train_ended)
    /\ UNCHANGED <<now, last_refresh, epoch_history, training_complete,
                   tuner_state, instance_state, execution_state, cloud_enabled>>

\* _checkpoint_model, lines 93-96
task_save_model ==
    /\ thread_pool.saving > 0
    /\ thread_pool' = [thread_pool EXCEPT !.saving = @ - 1, !.saved = @ + 1]
    /\ last' = "task_save_model"
    /\ out' = <<Event("save_model",
                      checkpoint_base_filename(tuner_state, instance_state,
                                               execution_state),
                      [kind |-> "model"], now)>>
    /\ hist' = Remember(hist.batch_values, EmptyLogs, FALSE, now, hist.train_ended)
    /\ UNCHANGED <<now, last_refresh, epoch_history, training_complete,
                   tuner_state, instance_state, execution_state, cloud_enabled>>

\* _checkpoint_model, line 97
task_write_result ==
    /\ thread_pool.saved > 0
    /\ thread_pool' = [thread_pool EXCEPT !.saved = @ - 1]
    /\ last' = "task_write_result"
    /\ out' = write_result_file(tuner_state, instance_state, execution_state,
                                cloud_enabled, now, 0)
    /\ hist' = Remember(hist.batch_values, EmptyLogs, FALSE, now, hist.train_ended)
    /\ UNCHANGED <<now, last_refresh, epoch_history, training_complete,
                   tuner_state, instance_state, execution_state, cloud_enabled>>

-----------------------------------------------------------------------------
(* The environment *)

\* time passes
Tick ==
    /\ now < EndOfTime
    /\ now' = now + 1
    /\ last' = "tick"
    /\ out' = <<>>
    /\ hist' = Remember(hist.batch_values, EmptyLogs, FALSE, now, hist.train_ended)
    /\ UNCHANGED <<last_refresh, epoch_history, training_complete, tuner_state,
                   instance_state, execution_state, cloud_enabled, thread_pool>>

\* the cloud service is switched on or off
ToggleCloud ==
    /\ cloud_enabled' = ~cloud_enabled
    /\ last' = "toggle_cloud"
    /\ out' = <<>>
    /\ hist' = Remember(hist.batch_values, EmptyLogs, FALSE, now, hist.train_ended)
    /\ UNCHANGED <<now, last_refresh, epoch_history, training_complete,
                   tuner_state, instance_state, execution_state, thread_pool>>

-----------------------------------------------------------------------------
(* Inputs *)

OneName == [project |-> <<"p">>, architecture |-> <<"a">>,
            result_dir |-> <<"r">>, local_dir |-> <<"l">>,
            instance_idx |-> 0, execution_idx |-> 0]

\* logs over the key sets keys with values from values
LogsOver(keys, values) == UNION {[k -> values] : k \in keys}

Budgets == {1, MaxEpochs + 1}

-----------------------------------------------------------------------------
(* Spec: the hooks, the thread pool and the cloud switch.  The I/O of the  *)
(* hooks takes no time and epochs log one metric.                          *)

CtlBatchLogs == LogsOver({{"loss"}}, {<<"float", 1>>})

CtlEpochLogs == LogsOver({{"loss"}, {"acc"}}, {<<"float", 1>>, <<"float", 2>>})

Init == InitWith({OneName}, Budgets, BOOLEAN, {2})

Next ==
    \/ \E logs \in CtlBatchLogs : on_batch_end(logs, 0)
    \/ \E logs \in CtlEpochLogs : on_epoch_end(logs, 0)
    \/ on_train_begin
    \/ on_train_end(0, 0)
    \/ task_start
    \/ task_save_model
    \/ task_write_result
    \/ ToggleCloud

Spec == Init /\ [][Next]_vars

-----------------------------------------------------------------------------
(* SpecTime: the hooks under a running clock.  Epochs log nothing, so no   *)
(* checkpoint task is ever submitted.                                      *)

Durations == {0, 1}

InitTime == InitWith({OneName}, {1}, {TRUE}, {2})

NextTime ==
    \/ \E logs \in CtlBatchLogs, d \in Durations : on_batch_end(logs, d)
    \/ \E d \in Durations : on_epoch_end(EmptyLogs, d)
    \/ on_train_begin
    \/ \E d \in Durations, d2 \in Durations : on_train_end(d, d2)
    \/ Tick

SpecTime == InitTime /\ [][NextTime]_vars

-----------------------------------------------------------------------------
(* SpecData: the hooks under every choice of batch logs.                   *)

DataValues == {<<"float", 1>>, <<"float", 2>>, <<"int", 2>>}

DataBatchLogs == LogsOver(SUBSET Metrics, DataValues)

InitData == InitWith({OneName}, {1}, {FALSE}, {2})

NextData ==
    \/ \E logs \in DataBatchLogs : on_batch_end(logs, 0)
    \/ on_epoch_end(EmptyLogs, 0)
    \/ on_train_begin
    \/ on_train_end(0, 0)

SpecData == InitData /\ [][NextData]_vars

-----------------------------------------------------------------------------
(* SpecPool: epochs and the thread pool, for pools of one and two workers. *)

PoolEpochLogs == LogsOver(SUBSET Metrics, {<<"float", 1>>, <<"float", 2>>})

InitPool == InitWith({OneName}, {MaxEpochs}, {FALSE}, {1, 2})

NextPool ==
    \/ \E logs \in PoolEpochLogs : on_epoch_end(logs, 0)
    \/ task_start
    \/ task_save_model
    \/ task_write_result
    \/ Tick

SpecPool == InitPool /\ [][NextPool]_vars

-----------------------------------------------------------------------------
(* SpecNames: the files written, for every choice of the names.            *)

Names ==
    [project : {<<"p">>}, architecture : {<<"a">>, <<"a", "-", "1">>},
     result_dir : {<<"r">>, <<"/", "r">>}, local_dir : {<<"l">>},
     instance_idx : {0, 1}, execution_idx : {0, 1, 10}]

NamesEpochLogs == LogsOver({{"loss"}}, {<<"float", 1>>, <<"float", 2>>})

InitNames == InitWith(Names, {1}, {FALSE}, {2})

NextNames ==
    \/ \E logs \in NamesEpochLogs : on_epoch_end(logs, 0)
    \/ on_train_end(0, 0)
    \/ task_start
    \/ task_save_model
    \/ task_write_result

SpecNames == InitNames /\ [][NextNames]_vars

-----------------------------------------------------------------------------
(* SpecStats: epochs and the end of training, for a callback constructed   *)
(* when earlier executions of the instance and earlier instances of the    *)
(* tuner have left their aggregates in the shared state.                   *)

\* what on_train_end of an earlier execution left: the instance aggregate,
\* and the tuner aggregate, which is at least as good
StatsAggs ==
    LET some == [loss |-> 2, acc |-> 2]
        best == [loss |-> 1, acc |-> 2]
    IN  {[instance |-> NoMetrics, tuner |-> NoMetrics],
         [instance |-> NoMetrics, tuner |-> some],
         [instance |-> NoMetrics, tuner |-> best],
         [instance |-> some, tuner |-> some],
         [instance |-> some, tuner |-> best]}

InitStats ==
    /\ now = StartTime
    /\ last_refresh = (-1) * TicksPerSecond
    /\ epoch_history = EmptyHistory
    /\ training_complete = FALSE
    /\ \E a \in StatsAggs :
          LET first == a.instance = NoMetrics
              earlier == [idx |-> 0, epochs |-> 1, metrics |-> a.instance]
              other == [idx |-> 1, execution_trained |-> 1,
                        agg_metrics |-> a.tuner, execution_configs |-> <<>>]
          IN  /\ tuner_state =
                    [project |-> OneName.project,
                     architecture |-> OneName.architecture,
                     objective |-> "loss", remaining_budget |-> MaxEpochs,
                     num_executions |-> MaxTrainEnds,
                     agg_metrics |-> a.tuner,
                     best_instance_config |->
                         IF a.tuner = NoMetrics THEN <<>> ELSE <<other>>,
                     host |-> [result_dir |-> OneName.result_dir,
                               local_dir |-> OneName.local_dir]]
              /\ instance_state =
                    [idx |-> OneName.instance_idx,
                     execution_trained |-> IF first THEN 0 ELSE 1,
                     agg_metrics |-> a.instance,
                     execution_configs |-> IF first THEN <<>> ELSE <<earlier>>]
              /\ execution_state =
                    [idx |-> IF first THEN 0 ELSE 1, epochs |-> 0,
                     metrics |-> NoMetrics]
    /\ hist = [batch_values |-> EmptyHistory, batch_write |-> -1,
               prev_batch_write |-> -1, train_ended |-> FALSE,
               logs |-> EmptyLogs, budget0 |-> MaxEpochs]
    /\ cloud_enabled = FALSE
    /\ thread_pool = [num_threads |-> 2, pending |-> 0, saving |-> 0,
                      saved |-> 0]
    /\ last = "init"
    /\ out = <<>>

NextStats ==
    \/ \E logs \in PoolEpochLogs : on_epoch_end(logs, 0)
    \/ on_train_end(0, 0)
    \/ task_start
    \/ task_save_model
    \/ task_write_result

SpecStats == InitStats /\ [][NextStats]_vars

-----------------------------------------------------------------------------
(* Properties *)

\* the positions of the events ev with a payload of the kind in o
At(o, ev, kind) == {i \in DOMAIN o : o[i].ev = ev /\ o[i].p.kind = kind}

\* refresh_interval in ticks of the clock
IntervalTicks == refresh_interval * TicksPerSecond

\* C1: an on_epoch_end step submits a checkpoint task if and only if its
\* logs hold the tuner's objective and the update of the execution's
\* metrics with that value reports an improvement; the pool receives
\* exactly the submitted tasks, and the other metrics submit nothing.
C1_CheckpointIffObjectiveImproved ==
    [][last' = "on_epoch_end" =>
         LET logs == hist'.logs
             obj == tuner_state.objective
             n == Cardinality(At(out', "apply_async", "checkpoint"))
         IN  /\ (n >= 1) <=>
                    (/\ obj \in DOMAIN logs
                     /\ metrics_improved(execution_state.metrics, obj, logs[obj]))
             /\ n <= 1
             /\ thread_pool'.pending = thread_pool.pending + n]_vars

\* C1 witness: an epoch whose logs improve the objective has submitted a
\* checkpoint task.
C1_Witness ==
    /\ last = "on_epoch_end"
    /\ tuner_state.objective \in DOMAIN hist.logs
    /\ At(out, "apply_async", "checkpoint") # {}
    /\ thread_pool.pending >= 1

\* C2: an on_batch_end step writes the status only when at least
\* refresh_interval has elapsed since last_refresh; otherwise it does no
\* I/O at all and leaves last_refresh unchanged; and a batch-triggered
\* status write comes at least refresh_interval after the one before it.
C2_BatchStatusThrottled ==
    [][last' = "on_batch_end" =>
         LET elapsed == now - last_refresh
             writes == At(out', "write_file", "status")
         IN  /\ writes # {} => elapsed >= IntervalTicks
             /\ elapsed < IntervalTicks =>
                    /\ out' = <<>>
                    /\ last_refresh' = last_refresh
                    /\ hist'.batch_write = hist.batch_write
             /\ \A i \in writes :
                    hist.batch_write # -1 =>
                        out'[i].t_done - hist.batch_write >= IntervalTicks]_vars

\* C2 witness: after two batch-triggered status writes, a batch within the
\* refresh interval has written nothing.
C2_Witness ==
    /\ last = "on_batch_end"
    /\ out = <<>>
    /\ now - last_refresh < IntervalTicks
    /\ hist.prev_batch_write # -1
    /\ hist.batch_write - hist.prev_batch_write >= IntervalTicks

\* C3: an on_epoch_end or on_train_end step has written the status exactly
\* once, whatever the time since the last refresh, and last_refresh is the
\* clock reading at which that write returned.
C3_ForcedStatusOnce ==
    last \in {"on_epoch_end", "on_train_end"} =>
        /\ Cardinality(At(out, "write_file", "status")) = 1
        /\ \A i \in At(out, "write_file", "status") :
              last_refresh = out[i].t_done

\* C3 witness: an epoch ended less than the refresh interval after a
\* batch-triggered write, and has written the status all the same.
C3_Witness ==
    /\ last = "on_epoch_end"
    /\ hist.batch_write # -1
    /\ \E i \in At(out, "write_file", "status") :
          /\ out[i].t_done - hist.batch_write < IntervalTicks
          /\ last_refresh = out[i].t_done
          /\ last_refresh > hist.batch_write

\* the kinds of payload that go to the cloud service, and the call for each
SendOf(kind) == IF kind = "status" THEN "send_status" ELSE "send_results"

\* C4: a status or results payload is sent to the cloud service if and only
\* if the service is enabled when it is written, and right after the same
\* payload was written to disk; with the service disabled nothing is sent
\* and the disk writes of the step happen all the same.
C4_CloudSendIffEnabled ==
    /\ \A i \in DOMAIN out :
          /\ (out[i].ev = "write_file" /\ cloud_enabled) =>
                /\ i + 1 \in DOMAIN out
                /\ out[i + 1].ev = SendOf(out[i].p.kind)
                /\ out[i + 1].p = out[i].p
          /\ out[i].ev \in {"send_status", "send_results"} =>
                /\ cloud_enabled
                /\ i - 1 \in DOMAIN out
                /\ out[i - 1].ev = "write_file"
                /\ out[i].ev = SendOf(out[i - 1].p.kind)
                /\ out[i - 1].p = out[i].p
    /\ last \in {"on_epoch_end", "on_train_end"} =>
          At(out, "write_file", "status") # {}
    /\ last \in {"on_train_end", "task_write_result"} =>
          At(out, "write_file", "results") # {}

\* C4 witness: on_train_end with the service enabled has written and sent
\* the status and the results.
C4_Witness ==
    /\ last = "on_train_end"
    /\ cloud_enabled
    /\ At(out, "send_status", "status") # {}
    /\ At(out, "send_results", "results") # {}

\* C5 as claimed: at most one checkpoint task is pending or running.
C5_AtMostOneTask ==
    thread_pool.pending + thread_pool.saving + thread_pool.saved <= 1

\* C5, amended: an on_epoch_end step submits at most one checkpoint task,
\* the pool holds at most one task for each epoch ended, and at most
\* num_threads tasks run at the same moment.
C5_OneTaskPerEpoch ==
    /\ last = "on_epoch_end" =>
          Cardinality(At(out, "apply_async", "checkpoint")) <= 1
    /\ thread_pool.pending + thread_pool.saving + thread_pool.saved
          <= execution_state.epochs
    /\ thread_pool.saving + thread_pool.saved <= thread_pool.num_threads

\* C5 witness: the checkpoint tasks of two epochs run at the same moment.
C5_Witness ==
    /\ thread_pool.saving + thread_pool.saved = 2
    /\ thread_pool.num_threads = 2
    /\ execution_state.epochs = 2

\* C6: every status carries training_complete = FALSE before on_train_end
\* and TRUE from on_train_end on, and the flag, once TRUE, stays TRUE.
C6_TrainingCompleteFlag ==
    /\ training_complete = hist.train_ended
    /\ \A i \in At(out, "write_file", "status") \cup At(out, "send_status", "status") :
          out[i].p.training_complete = hist.train_ended
    /\ last = "on_train_end" => training_complete

\* C6 witness: a status written by a hook that ran after on_train_end
\* carries TRUE.
C6_Witness ==
    /\ last \in {"on_epoch_end", "on_batch_end"}
    /\ hist.train_ended
    /\ \E i \in At(out, "write_file", "status") : out[i].p.training_complete

\* C7: on_train_end emits the tuning-complete message if and only if
\* remaining_budget is below 1, and as its last call: after the
\* end-of-training statistics, the status and the results file.
C7_TuningCompleteLast ==
    last = "on_train_end" =>
        LET done == At(out, "tuning_complete", "info")
            stats == At(out, "end_training_statistics", "statistics")
            status == At(out, "write_file", "status")
            results == At(out, "write_file", "results")
        IN  /\ (done # {}) <=> (tuner_state.remaining_budget < 1)
            /\ Cardinality(done) <= 1
            /\ \A k \in done :
                  /\ k = Len(out)
                  /\ \E a \in stats, b \in status, c \in results :
                        a < b /\ b < c /\ c < k

\* C7 witness: on_train_end with the budget used up has emitted the
\* message.
C7_Witness ==
    /\ last = "on_train_end"
    /\ tuner_state.remaining_budget < 1
    /\ out[Len(out)].ev = "tuning_complete"

\* the execution state with another idx
OtherExecution(es, idx) == [es EXCEPT !.idx = idx]

\* C8: the results file written is the one every execution of the instance
\* writes: its name is the same for every execution idx, and it is
\* result_dir joined with project-architecture-instance-results.json;
\* the checkpoint file saved has the execution idx as its last part and is
\* another file for every other execution idx.
C8_OneResultsFilePerInstance ==
    LET ts == tuner_state
        is == instance_state
        es == execution_state
        idxs == {n.execution_idx : n \in Names}
    IN  /\ \A i \in At(out, "write_file", "results") :
              /\ \A e \in idxs :
                    out[i].fname = results_fname(ts, is, OtherExecution(es, e))
              /\ out[i].fname =
                    path_join(ts.host.result_dir,
                              ts.project \o <<"-">> \o ts.architecture
                              \o <<"-">> \o str(is.idx)) \o ResultsSuffix
        /\ \A i \in At(out, "save_model", "model") :
              /\ \A e \in idxs \ {es.idx} :
                    out[i].fname #
                        checkpoint_base_filename(ts, is, OtherExecution(es, e))
              /\ LET f == out[i].fname
                     tail == <<"-">> \o str(es.idx)
                 IN  /\ Len(f) > Len(tail)
                     /\ SubSeq(f, Len(f) - Len(tail) + 1, Len(f)) = tail

\* C8 witness: the task of execution 10 has saved its checkpoint, which is
\* not the file another execution saves, and writes the results file.
C8_Witness ==
    /\ last = "task_save_model"
    /\ execution_state.idx = 10
    /\ \E i \in At(out, "save_model", "model") :
          out[i].fname = <<"/", "r", "/", "p", "-", "a", "-", "1", "-", "1", "0">>

\* C9: an on_epoch_end step adds 1 to execution_state.epochs and takes 1
\* from tuner_state.remaining_budget, no other step changes either, and
\* their sum is in every state what it was after construction.
C9_EpochsPlusBudget ==
    /\ [](execution_state.epochs + tuner_state.remaining_budget = hist.budget0)
    /\ [][IF last' = "on_epoch_end"
           THEN /\ execution_state'.epochs = execution_state.epochs + 1
                /\ tuner_state'.remaining_budget =
                       tuner_state.remaining_budget - 1
           ELSE /\ execution_state'.epochs = execution_state.epochs
                /\ tuner_state'.remaining_budget =
                       tuner_state.remaining_budget]_vars

\* C9 witness: after two epochs, and hooks and tasks after them, the
\* budget is two below what it was.
C9_Witness ==
    /\ execution_state.epochs = 2
    /\ tuner_state.remaining_budget = hist.budget0 - 2
    /\ last = "task_write_result"
    /\ hist.train_ended

\* the numbers of a list of logged values
NumbersOf(values) == [i \in DOMAIN values |-> values[i][2]]

\* C10: the list of every metric in epoch_history is, in order, the values
\* the metric took in the on_batch_end calls since the last on_epoch_end
\* (or since construction), each as a float.
C10_EpochHistoryIsCurrentEpoch ==
    \A m \in Metrics :
        /\ NumbersOf(epoch_history[m]) = hist.batch_values[m]
        /\ \A i \in DOMAIN epoch_history[m] : epoch_history[m][i][1] = "float"

\* C10 witness: in a later epoch, two batches have logged different values
\* of one metric and one value of the other.
C10_Witness ==
    /\ execution_state.epochs >= 1
    /\ last = "on_batch_end"
    /\ NumbersOf(epoch_history["loss"]) = <<2, 1>>
    /\ Len(epoch_history["acc"]) = 1

\* value a of the metric is at least as good as value b
AtLeastAsGood(metric, a, b) ==
    IF Direction(metric) = "min" THEN a <= b ELSE a >= b

\* C11: after on_train_end, for every metric, the instance aggregate holds
\* a value at least as good as the best value of the execution, and the
\* tuner aggregate holds a value at least as good as the instance
\* aggregate: the execution was folded into the instance before the
\* instance was folded into the tuner.
C11_InstanceThenGlobal ==
    last = "on_train_end" =>
        \A m \in Metrics :
            LET e == execution_state.metrics[m]
                i == instance_state.agg_metrics[m]
                t == tuner_state.agg_metrics[m]
            IN  /\ e # NoValue => (i # NoValue /\ AtLeastAsGood(m, i, e))
                /\ i # NoValue => (t # NoValue /\ AtLeastAsGood(m, t, i))

\* C11 witness: an execution whose loss beats the one of the earlier
\* execution and whose acc does not has been folded: the instance and the
\* tuner hold the new loss and the earlier acc.
C11_Witness ==
    /\ last = "on_train_end"
    /\ Len(instance_state.execution_configs) = 2
    /\ instance_state.execution_configs[1].metrics = [loss |-> 2, acc |-> 2]
    /\ execution_state.metrics = [loss |-> 1, acc |-> 1]
    /\ instance_state.agg_metrics = [loss |-> 1, acc |-> 2]
    /\ tuner_state.agg_metrics = [loss |-> 1, acc |-> 2]

====
